---- MODULE Spec2Model ----
(***************************************************************************)
(* State-machine model of the swarm coordinator                            *)
(* (src/agents/swarm_intelligence_agent.py, class SwarmIntelligenceAgent): *)
(* the agent, task, workflow and model registries, the action log, and the *)
(* operations register_agent, create_task, assign_task, execute_task,      *)
(* select_agent_for_task, create_workflow, execute_workflow,               *)
(* register_model, route_model and the status and listing queries; and of  *)
(* resolve_host of the entry point (src/rowboat.py).                       *)
(*                                                                         *)
(* Conventions                                                             *)
(*  - Optional[T] is a sequence of length 0 (None) or 1 (the value).       *)
(*  - A Python dict that is only looked up by key is a TLA+ function; the  *)
(*    agent registry, whose iteration order the matcher depends on, is a   *)
(*    sequence of records in insertion order.                              *)
(*  - A task id is a tuple of the parts the id string is built from:       *)
(*    <<"task_001">> for a caller-supplied id, <<wid, idx, suffix>> for    *)
(*    the f"{workflow_id}_{idx}_{run_suffix}" ids of execute_workflow.     *)
(*  - A description is the sequence of its \w+ runs (its words).           *)
(*  - A routing query and a model strength, which route_model compares by  *)
(*    substring, are sequences of one-character strings.                   *)
(*  - Every operation is a pure operator from the registries (the record   *)
(*    w) to the new registries and the returned value; the actions apply   *)
(*    them to the variables.  Fields no operation reads (role, created_at, *)
(*    workspace_dir, name/description of a workflow) are left out.         *)
(***************************************************************************)
EXTENDS Integers, Sequences, FiniteSets, TLC

VARIABLES agents, tasks, workflows, models, log, now, ret, calls, environ

vars == <<agents, tasks, workflows, models, log, now, ret, calls, environ>>

(***************************************************************************)
(* Bounds of the model                                                     *)
(***************************************************************************)
\* events the action log may hold
MaxLog == 5
\* seconds the wall clock may advance
MaxClock == 1
\* events the action log may hold when workflows are run
MaxWorkflowLog == 10
\* register_agent calls
MaxRegistrations == 2
\* create_workflow calls
MaxWorkflows == 1
\* agents registered before the matcher is asked
MaxMatcherAgents == 3
\* models a caller registers on top of the defaults
MaxModelRegistrations == 2
\* events in the action log when the status and listing queries are asked
MaxQueryLog == 2
\* events in the action log when every operation is in play
MaxAuditLog == 6
\* registrations of each kind (agents, models, workflows) in that log
MaxAuditRegistrations == 1
\* events in the action log when a workflow is run again after a registration
MaxRerunLog == 11

(***************************************************************************)
(* Values                                                                  *)
(***************************************************************************)
\* Python's None as the value of an Optional field
None == <<>>

\* a value that is present in an Optional field
Some(v) == <<v>>

\* Python truthiness of an Optional[str]: None and "" are both falsy
Truthy(opt) == opt # None /\ opt[1] # ""

\* str.lower() on the words and the characters of the model's vocabulary
Lower(s) ==
  CASE s = "Analyze" -> "analyze"
    [] s = "Plan" -> "plan"
    [] s = "X" -> "x"
    [] s = "A" -> "a"
    [] s = "C" -> "c"
    [] s = "E" -> "e"
    [] s = "H" -> "h"
    [] s = "P" -> "p"
    [] s = "R" -> "r"
    [] s = "S" -> "s"
    [] OTHER -> s

\* agent ids a caller may pass
AgentIdInputs == {"", "analyzer_01"}

\* an agent id that is never registered
GhostAgent == "nonexistent"

\* capability lists a caller may pass to register_agent
CapabilityInputs == {{"Analyze"}}

\* names a caller may pass to register_agent
NameInputs == {"Agent"}

\* task ids a caller may pass
TaskIdInputs == {<<"task_001">>, <<"task_002">>}

\* workflow ids a caller may pass
WorkflowIdInputs == {"wf_a"}

\* a step dict without an assigned_to key, or with one
StepInput(description, assigned_to) ==
  [description |-> description, assigned_to |-> assigned_to]

\* step lists a caller may pass to create_workflow
StepsInputs ==
  { <<>>,
    <<StepInput(<<"analyze", "X">>, None)>>,
    <<StepInput(<<"bogus">>, Some(""))>>,
    <<StepInput(<<"analyze", "X">>, None), StepInput(<<"bogus">>, Some(GhostAgent))>>,
    <<StepInput(<<"bogus">>, Some(GhostAgent)), StepInput(<<"analyze", "X">>, None)>> }

\* agent ids, capability lists and descriptions the matcher is tried on
MatcherAgentIds == {"analyzer_01", "executor_01", "planner_01"}

MatcherCapabilities == {{}, {"Analyze"}, {"Analyze", "Plan"}}

MatcherDescriptions ==
  {<<>>, <<"bogus">>, <<"Analyze", "X">>, <<"analyze", "plan", "plan">>}

\* model ids a caller may pass to register_model: a default's and a new one
ModelIdInputs == {"minimax", "router_x"}

\* the strength lists ["planning", "workflow"] and ["search", "citations"]
PlanningWorkflow ==
  <<<<"p", "l", "a", "n", "n", "i", "n", "g">>,
    <<"w", "o", "r", "k", "f", "l", "o", "w">>>>

SearchCitations ==
  <<<<"s", "e", "a", "r", "c", "h">>,
    <<"c", "i", "t", "a", "t", "i", "o", "n", "s">>>>

\* strength lists a caller may pass to register_model: [], the two above and
\* ["Plan", "planning", "workflow"]
StrengthsInputs ==
  { <<>>,
    PlanningWorkflow,
    SearchCitations,
    <<<<"P", "l", "a", "n">>,
      <<"p", "l", "a", "n", "n", "i", "n", "g">>,
      <<"w", "o", "r", "k", "f", "l", "o", "w">>>> }

\* the query "please optimize my planning workflow"
PlanningQuery ==
  <<"p", "l", "e", "a", "s", "e", " ", "o", "p", "t", "i", "m", "i", "z", "e",
    " ", "m", "y", " ", "p", "l", "a", "n", "n", "i", "n", "g",
    " ", "w", "o", "r", "k", "f", "l", "o", "w">>

\* queries a caller may pass to route_model: the one above, "Web SEARCH",
\* "hello" and "researching"
QueryInputs ==
  { PlanningQuery,
    <<"W", "e", "b", " ", "S", "E", "A", "R", "C", "H">>,
    <<"h", "e", "l", "l", "o">>,
    <<"r", "e", "s", "e", "a", "r", "c", "h", "i", "n", "g">> }

\* dataclass defaults
DefaultTaskPriority == 1

DefaultStepPriority == 5

(***************************************************************************)
(* The entry point (src/rowboat.py)                                        *)
(***************************************************************************)
\* the constants of lines 14-15
DEFAULT_HOST == "127.0.0.1"

ROWBOAT_HOST == "0.0.0.0"

\* the three variables of os.environ that the entry point reads, each unset
\* (None) or set to a string
Environ(host, rowboat_startup, port) ==
  [HOST |-> host, ROWBOAT_STARTUP |-> rowboat_startup, PORT |-> port]

\* values the environment variables and the argument may have
HostInputs == {None, Some(""), Some("10.0.0.5"), Some("0.0.0.0")}

RowboatStartupInputs == {None, Some(""), Some("0"), Some("1")}

PortInputs == {None, Some(""), Some("8080"), Some("abc")}

\* resolve_host without the test of its argument (lines 29-30)
resolve_host_ignores_port(env, port_value) ==
  IF Truthy(env.HOST) THEN env.HOST[1]
  ELSE IF env.ROWBOAT_STARTUP = Some("1") THEN ROWBOAT_HOST
  ELSE DEFAULT_HOST

\* resolve_host(port_value) against the environment env
resolve_host(env, port_value) ==
  IF Truthy(env.HOST) THEN env.HOST[1]
  ELSE IF env.ROWBOAT_STARTUP = Some("1") THEN ROWBOAT_HOST
  ELSE IF port_value # None THEN ROWBOAT_HOST
  ELSE DEFAULT_HOST

(***************************************************************************)
(* Registries                                                              *)
(***************************************************************************)
\* ids of the registered agents, i.e. the keys of self.agents
AgentIds(ags) == {ags[i].agent_id : i \in DOMAIN ags}

\* position of a registered agent in the registry's iteration order
AgentIndex(ags, agent_id) == CHOOSE i \in DOMAIN ags : ags[i].agent_id = agent_id

\* self.agents[agent_id]
GetAgent(ags, agent_id) == ags[AgentIndex(ags, agent_id)]

\* self.agents[agent_id] = agent: a new key goes last, an old key keeps its place
PutAgent(ags, agent) ==
  IF agent.agent_id \in AgentIds(ags)
    THEN [ags EXCEPT ![AgentIndex(ags, agent.agent_id)] = agent]
    ELSE Append(ags, agent)

\* d[key] = value on a dict modelled as a function
Put(d, key, value) == [k \in DOMAIN d \cup {key} |-> IF k = key THEN value ELSE d[k]]

\* an agent that is registered as active
Agent_active(agent_id, name, capabilities) ==
  [agent_id |-> agent_id, name |-> name, capabilities |-> capabilities,
   status |-> "active", tasks_completed |-> 0]

\* the Agent dataclass as built by register_agent
Agent(agent_id, name, capabilities) ==
  [agent_id |-> agent_id, name |-> name, capabilities |-> capabilities,
   status |-> "idle", tasks_completed |-> 0]

\* the Task dataclass as built by create_task
Task(task_id, description, priority) ==
  [task_id |-> task_id, description |-> description, priority |-> priority,
   assigned_to |-> None, status |-> "pending", completed_at |-> None,
   result |-> None]

\* one line of the action log
LogEntry(action, key) == [action |-> action, key |-> key]

\* the event written over the log instead of after it (the file opened with
\* 'w')
LogAction_truncating(w, action, key) == [w EXCEPT !.log = <<LogEntry(action, key)>>]

\* self._log_action(action, data)
LogAction(w, action, key) == [w EXCEPT !.log = Append(w.log, LogEntry(action, key))]

\* the value an operation hands back to its caller
Returned(op, args, ok, error) == [op |-> op, args |-> args, ok |-> ok, error |-> error]

(***************************************************************************)
(* Operations on tasks and agents                                          *)
(***************************************************************************)
register_agent(w, agent_id, name, capabilities) ==
  LET agent == Agent(agent_id, name, capabilities)
      w1 == [w EXCEPT !.agents = PutAgent(w.agents, agent)]
  IN [w |-> LogAction(w1, "agent_registered", <<agent_id>>),
      ret |-> Returned("register_agent", <<(<<agent_id>>)>>, TRUE, "")]

\* a creation that resets only the status of a task already in the registry
create_task_resets_status(w, task_id, description, priority) ==
  LET task == IF task_id \in DOMAIN w.tasks
                THEN [w.tasks[task_id] EXCEPT !.status = "pending"]
                ELSE Task(task_id, description, priority)
      w1 == [w EXCEPT !.tasks = Put(w.tasks, task_id, task)]
  IN [w |-> LogAction(w1, "task_created", task_id),
      ret |-> Returned("create_task", <<task_id>>, TRUE, "")]

create_task(w, task_id, description, priority) ==
  LET task == Task(task_id, description, priority)
      w1 == [w EXCEPT !.tasks = Put(w.tasks, task_id, task)]
  IN [w |-> LogAction(w1, "task_created", task_id),
      ret |-> Returned("create_task", <<task_id>>, TRUE, "")]

\* a rejection that also writes the attempt to the action log
AssignRejected_logged(w, task_id, agent_id) ==
  [w |-> LogAction(w, "task_assigned", task_id),
   ret |-> Returned("assign_task", <<task_id, <<agent_id>>>>, FALSE, "")]

\* the early return of assign_task: logger.error and return False
AssignRejected(w, task_id, agent_id) ==
  [w |-> w,
   ret |-> Returned("assign_task", <<task_id, <<agent_id>>>>, FALSE, "")]

\* an assignment that does not look the agent up in the registry
assign_task_any_agent(w, task_id, agent_id) ==
  IF task_id \notin DOMAIN w.tasks
    THEN AssignRejected(w, task_id, agent_id)
    ELSE LET w1 == [w EXCEPT !.tasks[task_id].assigned_to = Some(agent_id),
                             !.tasks[task_id].status = "assigned"]
         IN [w |-> LogAction(w1, "task_assigned", task_id),
             ret |-> Returned("assign_task", <<task_id, <<agent_id>>>>, TRUE, "")]

\* the match_score of lines 160-165 only decides whether logger.warning is
\* called; it changes neither the registries nor the returned value
assign_task(w, task_id, agent_id) ==
  IF task_id \notin DOMAIN w.tasks \/ agent_id \notin AgentIds(w.agents)
    THEN AssignRejected(w, task_id, agent_id)
    ELSE LET w1 == [w EXCEPT !.tasks[task_id].assigned_to = Some(agent_id),
                             !.tasks[task_id].status = "assigned"]
         IN [w |-> LogAction(w1, "task_assigned", task_id),
             ret |-> Returned("assign_task", <<task_id, <<agent_id>>>>, TRUE, "")]

\* the result dict of a successful execute_task
TaskResult(task_id, agent, description, at) ==
  [success |-> TRUE, task_id |-> task_id, agent_id |-> agent.agent_id,
   agent_name |-> agent.name, executed_at |-> at, description |-> description]

\* a failure dict {"success": False, "error": error}
Failure(error) == [success |-> FALSE, error |-> error]

\* a rejection that also moves the task to failed
TaskNotAssigned_marks_failed(w, task_id) ==
  [w |-> [w EXCEPT !.tasks[task_id].status = "failed"],
   result |-> Failure("Task not assigned"),
   ret |-> Returned("execute_task", <<task_id>>, FALSE, "Task not assigned")]

\* the second early return of execute_task
TaskNotAssigned(w, task_id) ==
  [w |-> w, result |-> Failure("Task not assigned"),
   ret |-> Returned("execute_task", <<task_id>>, FALSE, "Task not assigned")]
\* execute_task without the increment of line 207
execute_task_uncounted(w, task_id, at) ==
  IF task_id \notin DOMAIN w.tasks
    THEN [w |-> w, result |-> Failure("Task not found"),
          ret |-> Returned("execute_task", <<task_id>>, FALSE, "Task not found")]
  ELSE IF ~Truthy(w.tasks[task_id].assigned_to)
    THEN TaskNotAssigned(w, task_id)
  ELSE LET task == w.tasks[task_id]
           agent == GetAgent(w.agents, task.assigned_to[1])
           result == TaskResult(task_id, agent, task.description, at)
           w1 == [w EXCEPT !.tasks[task_id].status = "completed",
                           !.tasks[task_id].completed_at = Some(at),
                           !.tasks[task_id].result = Some(result)]
       IN [w |-> LogAction(w1, "task_executed", task_id), result |-> result,
           ret |-> Returned("execute_task", <<task_id>>, TRUE, "")]

execute_task(w, task_id, at) ==
  IF task_id \notin DOMAIN w.tasks
    THEN [w |-> w, result |-> Failure("Task not found"),
          ret |-> Returned("execute_task", <<task_id>>, FALSE, "Task not found")]
  ELSE IF ~Truthy(w.tasks[task_id].assigned_to)
    THEN TaskNotAssigned(w, task_id)
  ELSE LET task == w.tasks[task_id]
           i == AgentIndex(w.agents, task.assigned_to[1])
           agent == w.agents[i]
           result == TaskResult(task_id, agent, task.description, at)
           w1 == [w EXCEPT !.tasks[task_id].status = "completed",
                           !.tasks[task_id].completed_at = Some(at),
                           !.tasks[task_id].result = Some(result),
                           !.agents[i].tasks_completed = @ + 1]
       IN [w |-> LogAction(w1, "task_executed", task_id), result |-> result,
           ret |-> Returned("execute_task", <<task_id>>, TRUE, "")]

(***************************************************************************)
(* The agent matcher                                                       *)
(***************************************************************************)
\* set(re.findall(r"\w+", description.lower()))
Keywords(description) == {Lower(description[i]) : i \in DOMAIN description}

\* the score with the capabilities compared as they were registered
Score_case_sensitive(keywords, agent) ==
  Cardinality(keywords \cap agent.capabilities)

\* len(keywords & {cap.lower() for cap in agent.capabilities})
Score(keywords, agent) ==
  Cardinality(keywords \cap {Lower(cap) : cap \in agent.capabilities})

\* the loop with `score >= best_score`: the last of several equal agents wins
RECURSIVE ScanAgents_last_wins(_, _, _, _)
ScanAgents_last_wins(ags, keywords, i, best) ==
  IF i > Len(ags) THEN best
  ELSE IF Score(keywords, ags[i]) >= best.score
    THEN ScanAgents_last_wins(ags, keywords, i + 1,
                              [agent |-> Some(i), score |-> Score(keywords, ags[i])])
    ELSE ScanAgents_last_wins(ags, keywords, i + 1, best)

\* the for loop of select_agent_for_task from position i on; best is the pair
\* of best_agent (an Optional position in the registry) and best_score
RECURSIVE ScanAgents(_, _, _, _)
ScanAgents(ags, keywords, i, best) ==
  IF i > Len(ags) THEN best
  ELSE IF Score(keywords, ags[i]) > best.score
    THEN ScanAgents(ags, keywords, i + 1,
                    [agent |-> Some(i), score |-> Score(keywords, ags[i])])
    ELSE ScanAgents(ags, keywords, i + 1, best)

\* the matcher without the fallback of lines 320-321
select_agent_for_task_no_default(w, description) ==
  IF w.agents = <<>> THEN None
  ELSE LET best == ScanAgents(w.agents, Keywords(description), 1,
                              [agent |-> None, score |-> -1])
       IN IF best.agent # None
            THEN Some(w.agents[best.agent[1]].agent_id)
            ELSE None

\* the agent id the matcher returns, as an Optional
select_agent_for_task(w, description) ==
  IF w.agents = <<>> THEN None
  ELSE LET best == ScanAgents(w.agents, Keywords(description), 1,
                              [agent |-> None, score |-> -1])
       IN IF best.score <= 0 /\ "analyzer_01" \in AgentIds(w.agents)
            THEN Some("analyzer_01")
          ELSE IF best.agent # None
            THEN Some(w.agents[best.agent[1]].agent_id)
            ELSE None

(***************************************************************************)
(* Workflows                                                               *)
(***************************************************************************)
\* the WorkflowStep that create_workflow builds from the idx-th step dict
WorkflowStep(workflow_id, idx, step) ==
  [step_id |-> <<workflow_id, "step", idx>>, description |-> step.description,
   priority |-> DefaultStepPriority, assigned_to |-> step.assigned_to,
   status |-> "pending", result |-> None]

\* the Workflow dataclass as built by create_workflow
Workflow(workflow_id, steps) ==
  [workflow_id |-> workflow_id,
   steps |-> [idx \in DOMAIN steps |-> WorkflowStep(workflow_id, idx, steps[idx])],
   status |-> "pending", executed_at |-> None, results |-> <<>>]

create_workflow(w, workflow_id, steps) ==
  LET w1 == [w EXCEPT !.workflows = Put(w.workflows, workflow_id,
                                        Workflow(workflow_id, steps))]
  IN [w |-> LogAction(w1, "workflow_created", <<workflow_id>>),
      ret |-> Returned("create_workflow", <<(<<workflow_id>>)>>, TRUE, "")]

\* datetime.now().strftime("%H%M%S") read as a number, at being in seconds
RunSuffix(at) ==
  ((at \div 3600) % 24) * 10000 + ((at \div 60) % 60) * 100 + (at % 60)

\* f"{workflow.workflow_id}_{idx}_{run_suffix}"
StepTaskId(workflow_id, idx, run_suffix) == <<workflow_id, idx, run_suffix>>

\* a failure that also drops the tasks left pending from the registry
FailStep_discards_pending(w, workflow_id, idx, error) ==
  [w EXCEPT !.workflows[workflow_id].steps[idx].status = "failed",
            !.workflows[workflow_id].steps[idx].result = Some(Failure(error)),
            !.workflows[workflow_id].results = Append(@, Failure(error)),
            !.tasks = [T \in {K \in DOMAIN w.tasks : w.tasks[K].status # "pending"}
                         |-> w.tasks[T]]]

\* the step ends failed with the given error, which is appended to the results
FailStep(w, workflow_id, idx, error) ==
  [w EXCEPT !.workflows[workflow_id].steps[idx].status = "failed",
            !.workflows[workflow_id].steps[idx].result = Some(Failure(error)),
            !.workflows[workflow_id].results = Append(@, Failure(error))]

\* a resolution that hands a pre-assigned id the registry does not know to the
\* matcher
ResolveAgent_matcher_for_unknown(w, step) ==
  IF Truthy(step.assigned_to) /\ step.assigned_to[1] \in AgentIds(w.agents)
    THEN step.assigned_to
    ELSE select_agent_for_task(w, step.description)

\* step.assigned_to or self.select_agent_for_task(step.description)
ResolveAgent(w, step) ==
  IF Truthy(step.assigned_to) THEN step.assigned_to
  ELSE select_agent_for_task(w, step.description)

\* an iteration that does not write the resolved agent back to the step
RunStep_forgets_agent(w, workflow_id, idx, run_suffix, at) ==
  LET step == w.workflows[workflow_id].steps[idx]
      task_id == StepTaskId(workflow_id, idx, run_suffix)
      w1 == [w EXCEPT !.workflows[workflow_id].steps[idx].status = "executing"]
      w2 == create_task(w1, task_id, step.description, step.priority).w
      agent_id == ResolveAgent(w2, step)
  IN IF ~Truthy(agent_id)
       THEN FailStep(w2, workflow_id, idx, "No agent available")
     ELSE LET assigned == assign_task(w2, task_id, agent_id[1])
          IN IF ~assigned.ret.ok
               THEN FailStep(assigned.w, workflow_id, idx, "Task assignment failed")
             ELSE LET executed == execute_task(assigned.w, task_id, at)
                  IN [executed.w EXCEPT
                        !.workflows[workflow_id].steps[idx].result = Some(executed.result),
                        !.workflows[workflow_id].steps[idx].status =
                           IF executed.result.success THEN "completed" ELSE "failed",
                        !.workflows[workflow_id].results = Append(@, executed.result)]

\* one iteration of the loop of execute_workflow
RunStep(w, workflow_id, idx, run_suffix, at) ==
  LET step == w.workflows[workflow_id].steps[idx]
      task_id == StepTaskId(workflow_id, idx, run_suffix)
      w1 == [w EXCEPT !.workflows[workflow_id].steps[idx].status = "executing"]
      w2 == create_task(w1, task_id, step.description, step.priority).w
      agent_id == ResolveAgent(w2, step)
  IN IF ~Truthy(agent_id)
       THEN FailStep(w2, workflow_id, idx, "No agent available")
     ELSE LET assigned == assign_task(w2, task_id, agent_id[1])
          IN IF ~assigned.ret.ok
               THEN FailStep(assigned.w, workflow_id, idx, "Task assignment failed")
             ELSE LET w3 == [assigned.w EXCEPT
                               !.workflows[workflow_id].steps[idx].assigned_to = agent_id]
                      executed == execute_task(w3, task_id, at)
                  IN [executed.w EXCEPT
                        !.workflows[workflow_id].steps[idx].result = Some(executed.result),
                        !.workflows[workflow_id].steps[idx].status =
                           IF executed.result.success THEN "completed" ELSE "failed",
                        !.workflows[workflow_id].results = Append(@, executed.result)]

\* the loop of execute_workflow over the steps idx, idx + 1, ...
RECURSIVE RunSteps(_, _, _, _, _)
RunSteps(w, workflow_id, idx, run_suffix, at) ==
  IF idx > Len(w.workflows[workflow_id].steps) THEN w
  ELSE RunSteps(RunStep(w, workflow_id, idx, run_suffix, at),
                workflow_id, idx + 1, run_suffix, at)

\* a status that is completed as soon as one step is
WorkflowStatus_any(steps) ==
  IF \E idx \in DOMAIN steps : steps[idx].status = "completed"
    THEN "completed" ELSE "partial"

\* "completed" if all(step.status == "completed" ...) else "partial"
WorkflowStatus(steps) ==
  IF \A idx \in DOMAIN steps : steps[idx].status = "completed"
    THEN "completed" ELSE "partial"

\* a start of a run that keeps the results of the run before
BeginRun_keeps_results(w, workflow_id, at) ==
  [w EXCEPT !.workflows[workflow_id].status = "executing",
            !.workflows[workflow_id].executed_at = Some(at)]

\* the workflow is marked executing, stamped, and its results are cleared
BeginRun(w, workflow_id, at) ==
  [w EXCEPT !.workflows[workflow_id].status = "executing",
            !.workflows[workflow_id].executed_at = Some(at),
            !.workflows[workflow_id].results = <<>>]

\* lines 356-358 with the failure also written to the action log
WorkflowNotFound_logged(w, workflow_id) ==
  [w |-> LogAction(w, "workflow_executed", <<workflow_id>>),
   ret |-> Returned("execute_workflow", <<(<<workflow_id>>)>>, FALSE,
                    "Workflow not found")]

\* lines 356-358: the early return for an id that is not in the registry
WorkflowNotFound(w, workflow_id) ==
  [w |-> w,
   ret |-> Returned("execute_workflow", <<(<<workflow_id>>)>>, FALSE,
                    "Workflow not found")]

\* a run that reports a workflow without steps as partial
execute_workflow_needs_steps(w, workflow_id, at) ==
  IF workflow_id \notin DOMAIN w.workflows
    THEN WorkflowNotFound(w, workflow_id)
  ELSE LET w1 == BeginRun(w, workflow_id, at)
           w2 == RunSteps(w1, workflow_id, 1, RunSuffix(at), at)
           status == IF w2.workflows[workflow_id].steps = <<>> THEN "partial"
                     ELSE WorkflowStatus(w2.workflows[workflow_id].steps)
           w3 == [w2 EXCEPT !.workflows[workflow_id].status = status]
       IN [w |-> LogAction(w3, "workflow_executed", <<workflow_id>>),
           ret |-> Returned("execute_workflow", <<(<<workflow_id>>)>>,
                            status = "completed", "")]

execute_workflow(w, workflow_id, at) ==
  IF workflow_id \notin DOMAIN w.workflows
    THEN WorkflowNotFound(w, workflow_id)
  ELSE LET w1 == BeginRun(w, workflow_id, at)
           w2 == RunSteps(w1, workflow_id, 1, RunSuffix(at), at)
           status == WorkflowStatus(w2.workflows[workflow_id].steps)
           w3 == [w2 EXCEPT !.workflows[workflow_id].status = status]
       IN [w |-> LogAction(w3, "workflow_executed", <<workflow_id>>),
           ret |-> Returned("execute_workflow", <<(<<workflow_id>>)>>,
                            status = "completed", "")]

(***************************************************************************)
(* The model registry and the model router                                 *)
(***************************************************************************)
\* the ModelProfile dataclass
ModelProfile(model_id, name, provider, strengths, endpoint, status) ==
  [model_id |-> model_id, name |-> name, provider |-> provider,
   strengths |-> strengths, status |-> status, endpoint |-> endpoint]

\* a construction that registers no model
DefaultModels_none == <<>>

\* the registry _register_default_models leaves behind, in insertion order
DefaultModels ==
  << 
     ModelProfile("gpt_4", "GPT-4", "OpenAI",
       <<<<"c", "o", "d", "e">>,
         <<"a", "n", "a", "l", "y", "s", "i", "s">>,
         <<"r", "e", "a", "s", "o", "n", "i", "n", "g">>,
         <<"p", "l", "a", "n", "n", "i", "n", "g">>>>,
       None, "available"),
     ModelProfile("claude_3_5", "Claude 3.5", "Anthropic",
       <<<<"w", "r", "i", "t", "i", "n", "g">>,
         <<"a", "n", "a", "l", "y", "s", "i", "s">>,
         <<"s", "u", "m", "m", "a", "r", "i", "z", "e">>,
         <<"s", "t", "r", "a", "t", "e", "g", "y">>>>,
       None, "available"),
     ModelProfile("gemini_1_5", "Gemini 1.5", "Google",
       <<<<"m", "u", "l", "t", "i", "m", "o", "d", "a", "l">>,
         <<"l", "o", "n", "g", "-", "c", "o", "n", "t", "e", "x", "t">>,
         <<"r", "e", "s", "e", "a", "r", "c", "h">>,
         <<"v", "i", "s", "i", "o", "n">>>>,
       None, "available"),
     ModelProfile("perplexity", "Perplexity", "Perplexity AI",
       <<<<"s", "e", "a", "r", "c", "h">>,
         <<"c", "i", "t", "a", "t", "i", "o", "n", "s">>,
         <<"r", "e", "s", "e", "a", "r", "c", "h">>,
         <<"b", "r", "o", "w", "s", "i", "n", "g">>>>,
       None, "available"),
     ModelProfile("minimax", "Minimax", "Minimax",
       <<<<"p", "l", "a", "n", "n", "i", "n", "g">>,
         <<"w", "o", "r", "k", "f", "l", "o", "w">>,
         <<"c", "o", "o", "r", "d", "i", "n", "a", "t", "i", "o", "n">>,
         <<"a", "u", "t", "o", "m", "a", "t", "i", "o", "n">>>>,
       None, "available") >>

\* ids of the registered models, i.e. the keys of self.models
ModelIds(mods) == {mods[i].model_id : i \in DOMAIN mods}

\* self.models[model.model_id] = model: a new key goes last, an old key keeps
\* its place
PutModel(mods, model) ==
  IF model.model_id \in ModelIds(mods)
    THEN [mods EXCEPT ![CHOOSE i \in DOMAIN mods : mods[i].model_id = model.model_id] = model]
    ELSE Append(mods, model)

register_model(w, model_id, name, provider, strengths, endpoint, status) ==
  LET model == ModelProfile(model_id, name, provider, strengths, endpoint, status)
      w1 == [w EXCEPT !.models = PutModel(w.models, model)]
  IN [w |-> LogAction(w1, "model_registered", <<model_id>>),
      ret |-> Returned("register_model", <<(<<model_id>>)>>, TRUE, "")]

\* str.lower() on a text
LowerText(text) == [i \in DOMAIN text |-> Lower(text[i])]

\* Python's `strength in query_lower` on two texts
Contains(text, part) ==
  \E i \in 0..(Len(text) - Len(part)) : SubSeq(text, i + 1, i + Len(part)) = part

\* [s for s in strengths if s in query_lower]
MatchedStrengths(strengths, query_lower) ==
  SelectSeq(strengths, LAMBDA strength : Contains(query_lower, strength))

\* the lowercased strengths of a model and their number found in the query
LowerStrengths(model) == [i \in DOMAIN model.strengths |-> LowerText(model.strengths[i])]

ModelScore(model, query_lower) == Len(MatchedStrengths(LowerStrengths(model), query_lower))

\* the loop with `score >= best_score`: the last of several equal models wins
RECURSIVE ScanModels_last_wins(_, _, _, _)
ScanModels_last_wins(mods, query_lower, i, best) ==
  IF i > Len(mods) THEN best
  ELSE IF ModelScore(mods[i], query_lower) >= best.score
    THEN ScanModels_last_wins(mods, query_lower, i + 1,
                    [model |-> Some(mods[i]),
                     score |-> ModelScore(mods[i], query_lower),
                     matched |-> MatchedStrengths(LowerStrengths(mods[i]), query_lower)])
    ELSE ScanModels_last_wins(mods, query_lower, i + 1, best)

\* the loop of lines 278-284 from model i on; best is (best_model, best_score,
\* matched_strengths)
RECURSIVE ScanModels(_, _, _, _)
ScanModels(mods, query_lower, i, best) ==
  IF i > Len(mods) THEN best
  ELSE IF ModelScore(mods[i], query_lower) > best.score
    THEN ScanModels(mods, query_lower, i + 1,
                    [model |-> Some(mods[i]),
                     score |-> ModelScore(mods[i], query_lower),
                     matched |-> MatchedStrengths(LowerStrengths(mods[i]), query_lower)])
    ELSE ScanModels(mods, query_lower, i + 1, best)

\* the reason string: the matched strengths, or the name of the default
Reason(matched, model) ==
  IF matched # <<>> THEN [matched |-> matched] ELSE [defaulting_to |-> model.name]

\* the value a query hands back to its caller
Answered(op, args, ok, value) ==
  [op |-> op, args |-> args, ok |-> ok, error |-> "", value |-> value]

route_model(w, query) ==
  IF w.models = <<>>
    THEN Answered("route_model", <<query>>, FALSE, Failure("No models registered"))
  ELSE LET best == ScanModels(w.models, LowerText(query), 1,
                              [model |-> None, score |-> -1, matched |-> <<>>])
           best_model == IF best.model = None THEN w.models[1] ELSE best.model[1]
       IN Answered("route_model", <<query>>, TRUE,
                   [success |-> TRUE, model |-> best_model, score |-> best.score,
                    reason |-> Reason(best.matched, best_model)])

\* list_models: asdict of every model, in registry order
list_models(w) == Answered("list_models", <<>>, TRUE, w.models)

(***************************************************************************)
(* Status and listing queries                                              *)
(***************************************************************************)
\* the number of entries of a registry (a function or a sequence) that have
\* the given status
CountStatus(registry, status) ==
  Cardinality({k \in DOMAIN registry : registry[k].status = status})

\* completed_tasks / total_tasks if total_tasks > 0 else 0, as a fraction
CompletionRate(completed_tasks, total_tasks) ==
  IF total_tasks > 0 THEN <<completed_tasks, total_tasks>> ELSE <<0, 1>>

\* the dict get_swarm_status builds; at is datetime.now()
SwarmStatus(w, at) ==
  LET completed_tasks == CountStatus(w.tasks, "completed")
  IN [timestamp |-> at,
      total_agents |-> Len(w.agents),
      active_agents |-> CountStatus(w.agents, "active"),
      total_tasks |-> Cardinality(DOMAIN w.tasks),
      completed_tasks |-> completed_tasks,
      completion_rate |-> CompletionRate(completed_tasks, Cardinality(DOMAIN w.tasks)),
      total_workflows |-> Cardinality(DOMAIN w.workflows),
      completed_workflows |-> CountStatus(w.workflows, "completed"),
      models_available |-> Len(w.models),
      agents |-> [i \in DOMAIN w.agents |->
                   [id |-> w.agents[i].agent_id, name |-> w.agents[i].name,
                    status |-> w.agents[i].status,
                    tasks_completed |-> w.agents[i].tasks_completed]]]

get_swarm_status(w, at) == Answered("get_swarm_status", <<>>, TRUE, SwarmStatus(w, at))

\* list_workflows: _workflow_to_dict of every workflow, by workflow id
list_workflows(w) == Answered("list_workflows", <<>>, TRUE, w.workflows)

(***************************************************************************)
(* The state machine                                                       *)
(***************************************************************************)
\* the registries as one record
World ==
  [agents |-> agents, tasks |-> tasks, workflows |-> workflows,
   models |-> models, log |-> log]

\* an operation's outcome becomes the next state, the log holding at most cap
\* events
Apply(r, cap) ==
  /\ Len(r.w.log) <= cap
  /\ agents' = r.w.agents
  /\ tasks' = r.w.tasks
  /\ workflows' = r.w.workflows
  /\ models' = r.w.models
  /\ log' = r.w.log
  /\ ret' = r.ret
  /\ UNCHANGED <<now, calls, environ>>

\* the number of events of the given action in the log
Logged(action) == Cardinality({i \in DOMAIN log : log[i].action = action})

Init ==
  /\ agents = <<>>
  /\ tasks = <<>>
  /\ workflows = <<>>
  /\ models = DefaultModels
  /\ log = <<>>
  /\ now = 0
  /\ ret = Returned("__init__", <<>>, TRUE, "")
  /\ calls = <<>>
  /\ environ = Environ(None, None, None)

CallRegisterAgent(ids, capability_lists, cap) ==
  \E agent_id \in ids, name \in NameInputs, capabilities \in capability_lists :
    Apply(register_agent(World, agent_id, name, capabilities), cap)

CallCreateTask(ids, descriptions, cap) ==
  \E task_id \in ids, description \in descriptions :
    Apply(create_task(World, task_id, description, DefaultTaskPriority), cap)

CallAssignTask(ids, cap) ==
  \E task_id \in ids, agent_id \in AgentIdInputs \cup {GhostAgent} :
    Apply(assign_task(World, task_id, agent_id), cap)

CallExecuteTask(ids, cap) ==
  \E task_id \in ids :
    Apply(execute_task(World, task_id, now), cap)

CallCreateWorkflow(cap) ==
  \E workflow_id \in WorkflowIdInputs, steps \in StepsInputs :
    Apply(create_workflow(World, workflow_id, steps), cap)

CallExecuteWorkflow(cap) ==
  \E workflow_id \in WorkflowIdInputs :
    Apply(execute_workflow(World, workflow_id, now), cap)

\* the wall clock advances by a second between two operations
Tick ==
  /\ now < MaxClock
  /\ now' = now + 1
  /\ UNCHANGED <<agents, tasks, workflows, models, log, ret, calls, environ>>

\* the task lifecycle: agents and tasks driven by the caller
Next ==
  \/ /\ Logged("agent_registered") < MaxRegistrations
     /\ CallRegisterAgent(AgentIdInputs, CapabilityInputs, MaxLog)
  \/ CallCreateTask(TaskIdInputs, {<<"analyze", "X">>}, MaxLog)
  \/ CallAssignTask(TaskIdInputs, MaxLog)
  \/ CallExecuteTask(TaskIdInputs, MaxLog)
  \/ Tick

Spec == Init /\ [][Next]_vars

\* the workflow executor: workflows run against the registered agents
NextWorkflow ==
  \/ /\ Logged("agent_registered") < MaxRegistrations
     /\ CallRegisterAgent(AgentIdInputs, CapabilityInputs, MaxWorkflowLog)
  \/ /\ Logged("workflow_created") < MaxWorkflows
     /\ CallCreateWorkflow(MaxWorkflowLog)
  \/ CallExecuteWorkflow(MaxWorkflowLog)
  \/ Tick

SpecWorkflow == Init /\ [][NextWorkflow]_vars

\* a query that leaves a trace of itself in the action log
Query_logged(answer) ==
  /\ ret' = answer
  /\ log' = Append(log, LogEntry(answer.op, answer.args))
  /\ UNCHANGED <<agents, tasks, workflows, models, now, calls, environ>>

\* a query hands back its answer and leaves the registries alone
Query(answer) ==
  /\ ret' = answer
  /\ UNCHANGED <<agents, tasks, workflows, models, log, now, calls, environ>>

CallSelectAgent(descriptions) ==
  \E description \in descriptions :
    LET agent_id == select_agent_for_task(World, description)
    IN Query(Answered("select_agent_for_task", <<description>>, agent_id # None, agent_id))

\* the matcher: agents are registered and the matcher is asked
NextMatcher ==
  \/ /\ Logged("agent_registered") < MaxMatcherAgents
     /\ CallRegisterAgent(MatcherAgentIds, MatcherCapabilities, MaxMatcherAgents)
  \/ CallSelectAgent(MatcherDescriptions)

SpecMatcher == Init /\ [][NextMatcher]_vars

CallRegisterModel(ids, strength_lists, cap) ==
  \E model_id \in ids, strengths \in strength_lists :
    Apply(register_model(World, model_id, "Model", "Provider", strengths,
                         None, "available"), cap)

CallRouteModel == \E query \in QueryInputs : Query(route_model(World, query))

\* the model router: models are registered and queries are routed
NextRouter ==
  \/ /\ Logged("model_registered") < MaxModelRegistrations
     /\ CallRegisterModel(ModelIdInputs, StrengthsInputs, MaxModelRegistrations)
  \/ CallRouteModel

SpecRouter == Init /\ [][NextRouter]_vars

CallGetSwarmStatus == Query(get_swarm_status(World, now))

CallListModels == Query(list_models(World))

CallListWorkflows == Query(list_workflows(World))

\* the queries: the registries are filled and then read, as time passes
NextQueries ==
  \/ CallRegisterAgent(AgentIdInputs, CapabilityInputs, MaxQueryLog)
  \/ CallCreateTask({<<"task_001">>}, {<<"analyze", "X">>}, MaxQueryLog)
  \/ CallCreateWorkflow(MaxQueryLog)
  \/ CallRegisterModel(ModelIdInputs, StrengthsInputs, MaxQueryLog)
  \/ CallGetSwarmStatus
  \/ CallListModels
  \/ CallListWorkflows
  \/ Tick

SpecQueries == Init /\ [][NextQueries]_vars

\* the action log: every operation that writes to a registry is in play
NextAudit ==
  \/ /\ Logged("agent_registered") < MaxAuditRegistrations
     /\ CallRegisterAgent({"analyzer_01"}, CapabilityInputs, MaxAuditLog)
  \/ /\ Logged("model_registered") < MaxAuditRegistrations
     /\ CallRegisterModel({"router_x"}, {PlanningWorkflow}, MaxAuditLog)
  \/ CallCreateTask({<<"task_001">>}, {<<"analyze", "X">>}, MaxAuditLog)
  \/ CallAssignTask({<<"task_001">>}, MaxAuditLog)
  \/ CallExecuteTask({<<"task_001">>}, MaxAuditLog)
  \/ /\ Logged("workflow_created") < MaxAuditRegistrations
     /\ CallCreateWorkflow(MaxAuditLog)
  \/ CallExecuteWorkflow(MaxAuditLog)

SpecAudit == Init /\ [][NextAudit]_vars

\* workflows run again after the registry of agents has grown: an agent
\* without capabilities and one that matches the steps are registered in
\* either order
NextRerun ==
  \/ /\ Logged("agent_registered") < MaxRegistrations
     /\ \/ CallRegisterAgent({"analyzer_01"}, {{}}, MaxRerunLog)
        \/ CallRegisterAgent({"planner_01"}, {{"Analyze"}}, MaxRerunLog)
  \/ /\ Logged("workflow_created") < MaxWorkflows
     /\ CallCreateWorkflow(MaxRerunLog)
  \/ CallExecuteWorkflow(MaxRerunLog)
  \/ Tick

SpecRerun == Init /\ [][NextRerun]_vars

\* the two matchers: agents and models are registered and the matchers are
\* asked, as time passes
NextMatchers ==
  \/ CallRegisterAgent({"analyzer_01", "executor_01"}, {{}, {"Analyze"}}, MaxQueryLog)
  \/ CallRegisterModel({"router_x"}, StrengthsInputs, MaxQueryLog)
  \/ CallSelectAgent(MatcherDescriptions)
  \/ CallRouteModel
  \/ Tick

SpecMatchers == Init /\ [][NextMatchers]_vars

(***************************************************************************)
(* Two concurrent assign_task calls                                        *)
(***************************************************************************)
\* the two request threads
Callers == {1, 2}

\* the registries of a coordinator that has just been constructed
NewWorld ==
  [agents |-> <<>>, tasks |-> <<>>, workflows |-> <<>>, models |-> DefaultModels,
   log |-> <<>>]

\* the registries after the given agents were registered, one after the other
RECURSIVE WithAgents(_, _)
WithAgents(w, ids) ==
  IF ids = <<>> THEN w
  ELSE WithAgents(register_agent(w, Head(ids), "Agent", {"Analyze"}).w, Tail(ids))

\* registries the race starts from: three agents and the task task_001, which
\* is pending, or assigned to the first agent, or completed by it
RaceWorlds ==
  LET T == <<"task_001">>
      w1 == WithAgents(NewWorld, <<"analyzer_01", "executor_01", "planner_01">>)
      w2 == create_task(w1, T, <<"analyze", "X">>, DefaultTaskPriority).w
      w3 == assign_task(w2, T, "analyzer_01").w
      w4 == execute_task(w3, T, 0).w
  IN {w2, w3, w4}

\* a call assign_task(task_id, agent_id) that is about to start
AssignCall(task_id, agent_id) ==
  [pc |-> "check", task_id |-> task_id, agent_id |-> agent_id, result |-> None]

InitRace ==
  /\ \E w \in RaceWorlds :
       /\ agents = w.agents
       /\ tasks = w.tasks
       /\ workflows = w.workflows
       /\ models = w.models
       /\ log = w.log
  /\ now = 0
  /\ environ = Environ(None, None, None)
  /\ ret = Returned("__init__", <<>>, TRUE, "")
  /\ \E first \in MatcherAgentIds :
       \E second \in MatcherAgentIds \ {first} :
         calls = [c \in Callers |->
                   AssignCall(<<"task_001">>, IF c = 1 THEN first ELSE second)]

\* the check of lines 153-155 with a task that is already assigned or
\* completed turned away too
AssignCheck_rejects_assigned(c) ==
  /\ calls[c].pc = "check"
  /\ calls' =
       IF \/ calls[c].task_id \notin DOMAIN tasks
          \/ calls[c].agent_id \notin AgentIds(agents)
          \/ tasks[calls[c].task_id].status # "pending"
         THEN [calls EXCEPT ![c].pc = "done", ![c].result = Some(FALSE)]
         ELSE [calls EXCEPT ![c].pc = "set_assigned_to"]
  /\ UNCHANGED <<agents, tasks, workflows, models, log, now, ret, environ>>

\* lines 153-165: the check, and the reads that follow it
AssignCheck(c) ==
  /\ calls[c].pc = "check"
  /\ calls' =
       IF \/ calls[c].task_id \notin DOMAIN tasks
          \/ calls[c].agent_id \notin AgentIds(agents)
         THEN [calls EXCEPT ![c].pc = "done", ![c].result = Some(FALSE)]
         ELSE [calls EXCEPT ![c].pc = "set_assigned_to"]
  /\ UNCHANGED <<agents, tasks, workflows, models, log, now, ret, environ>>

\* line 167: task.assigned_to = agent_id
AssignSetAssignedTo(c) ==
  /\ calls[c].pc = "set_assigned_to"
  /\ tasks' = [tasks EXCEPT ![calls[c].task_id].assigned_to = Some(calls[c].agent_id)]
  /\ calls' = [calls EXCEPT ![c].pc = "set_status"]
  /\ UNCHANGED <<agents, workflows, models, log, now, ret, environ>>

\* line 168: task.status = "assigned"
AssignSetStatus(c) ==
  /\ calls[c].pc = "set_status"
  /\ tasks' = [tasks EXCEPT ![calls[c].task_id].status = "assigned"]
  /\ calls' = [calls EXCEPT ![c].pc = "log"]
  /\ UNCHANGED <<agents, workflows, models, log, now, ret, environ>>

\* lines 171-175: self._log_action("task_assigned", ...)
AssignLog(c) ==
  /\ calls[c].pc = "log"
  /\ log' = Append(log, LogEntry("task_assigned", calls[c].task_id))
  /\ calls' = [calls EXCEPT ![c].pc = "return"]
  /\ UNCHANGED <<agents, tasks, workflows, models, now, ret, environ>>

\* line 176: return True
AssignReturn(c) ==
  /\ calls[c].pc = "return"
  /\ calls' = [calls EXCEPT ![c].pc = "done", ![c].result = Some(TRUE)]
  /\ UNCHANGED <<agents, tasks, workflows, models, log, now, ret, environ>>

\* the two calls run statement by statement, in any interleaving
NextRace ==
  \E c \in Callers :
    \/ AssignCheck(c)
    \/ AssignSetAssignedTo(c)
    \/ AssignSetStatus(c)
    \/ AssignLog(c)
    \/ AssignReturn(c)

SpecRace == InitRace /\ [][NextRace]_vars

(***************************************************************************)
(* The entry point under every environment                                 *)
(***************************************************************************)
\* a process started with any of the environments
InitRowboat ==
  /\ agents = <<>>
  /\ tasks = <<>>
  /\ workflows = <<>>
  /\ models = DefaultModels
  /\ log = <<>>
  /\ now = 0
  /\ ret = Returned("__init__", <<>>, TRUE, "")
  /\ calls = <<>>
  /\ \E host \in HostInputs, rowboat_startup \in RowboatStartupInputs, port \in PortInputs :
       environ = Environ(host, rowboat_startup, port)

CallResolveHost ==
  \E port_value \in PortInputs :
    /\ ret' = Answered("resolve_host", <<port_value>>, TRUE, resolve_host(environ, port_value))
    /\ UNCHANGED <<agents, tasks, workflows, models, log, now, calls, environ>>

NextRowboat == CallResolveHost

SpecRowboat == InitRowboat /\ [][NextRowboat]_vars

(***************************************************************************)
(* Vocabulary of the properties                                            *)
(***************************************************************************)
\* this step is the call op(args): every operation records itself in ret and
\* leaves the clock alone, and Tick leaves ret alone
Called(op, args) == now' = now /\ ret'.op = op /\ ret'.args = args

\* the last operation was the call op(args)
LastCall(op, args) == ret.op = op /\ ret.args = args

\* the log ends with the two given events
LogEndsWith(e1, e2) ==
  Len(log) >= 2 /\ log[Len(log) - 1] = e1 /\ log[Len(log)] = e2

\* every agent but agent_id keeps its tasks_completed in this step
OthersKeepCount(agent_id) ==
  \A i \in DOMAIN agents :
    agents[i].agent_id # agent_id =>
      /\ i \in DOMAIN agents'
      /\ agents'[i].agent_id = agents[i].agent_id
      /\ agents'[i].tasks_completed = agents[i].tasks_completed

\* the registries and the log are what they were before this step
RegistriesUnchanged == UNCHANGED <<agents, tasks, workflows, models, log>>

(***************************************************************************)
(* Task lifecycle                                                          *)
(***************************************************************************)
\* C1: for every registered agent A and every task T that was just created,
\* assign_task(T, A) followed immediately by execute_task(T) leaves T completed
\* with a result whose success flag is true, adds exactly 1 to A's
\* tasks_completed and leaves every other agent's tasks_completed unchanged.
C1_AssignThenExecuteCompletes ==
  [][\A T \in TaskIdInputs, A \in AgentIdInputs :
       ( /\ LogEndsWith(LogEntry("task_created", T), LogEntry("task_assigned", T))
         /\ LastCall("assign_task", <<T, <<A>>>>)
         /\ ret.ok
         /\ Called("execute_task", <<T>>) )
       => /\ ret'.ok
          /\ tasks'[T].status = "completed"
          /\ tasks'[T].result # None
          /\ tasks'[T].result[1].success
          /\ GetAgent(agents', A).tasks_completed = GetAgent(agents, A).tasks_completed + 1
          /\ OthersKeepCount(A)]_vars

\* C2: execute_task succeeds only on a task whose status is assigned; on a
\* task that is already completed it does not succeed again and no agent's
\* tasks_completed grows.
C2_ExecuteOnlyFromAssigned ==
  [][\A T \in TaskIdInputs :
       Called("execute_task", <<T>>)
       => /\ ret'.ok => (T \in DOMAIN tasks /\ tasks[T].status = "assigned")
          /\ (T \in DOMAIN tasks /\ tasks[T].status = "completed")
               => /\ ~ret'.ok
                  /\ \A i \in DOMAIN agents :
                       agents'[i].tasks_completed = agents[i].tasks_completed]_vars

\* C3: execute_task on an existing task whose assigned_to is unset returns the
\* failure 'Task not assigned' and leaves the task, every agent's
\* tasks_completed and the action log exactly as they were.
C3_ExecuteUnassignedFails ==
  [][\A T \in TaskIdInputs :
       ( /\ Called("execute_task", <<T>>)
         /\ T \in DOMAIN tasks
         /\ tasks[T].assigned_to = None )
       => /\ ~ret'.ok
          /\ ret'.error = "Task not assigned"
          /\ tasks'[T] = tasks[T]
          /\ RegistriesUnchanged]_vars

\* C3 happens: the last call was execute_task on a pending task without an
\* assignee, next to a task that an agent has completed
C3_Witness ==
  \E T \in TaskIdInputs :
    /\ LastCall("execute_task", <<T>>)
    /\ T \in DOMAIN tasks
    /\ tasks[T].assigned_to = None
    /\ tasks[T].status = "pending"
    /\ ~ret.ok
    /\ \E i \in DOMAIN agents : agents[i].tasks_completed > 0

\* C4: assign_task on a task whose status is completed or failed is rejected
\* for every registered agent: it returns failure and the task keeps its
\* status and its assignee.
C4_AssignCompletedRejected ==
  [][\A T \in TaskIdInputs, A \in AgentIdInputs :
       ( /\ Called("assign_task", <<T, <<A>>>>)
         /\ T \in DOMAIN tasks
         /\ tasks[T].status \in {"completed", "failed"}
         /\ A \in AgentIds(agents) )
       => /\ ~ret'.ok
          /\ tasks'[T].status = tasks[T].status
          /\ tasks'[T].assigned_to = tasks[T].assigned_to]_vars

\* C5: assign_task with a task id that is not in the task registry or an agent
\* id that is not in the agent registry returns false and changes no registry
\* and not the action log.
C5_AssignUnknownChangesNothing ==
  [][\A T \in TaskIdInputs, A \in AgentIdInputs \cup {GhostAgent} :
       ( /\ Called("assign_task", <<T, <<A>>>>)
         /\ (T \notin DOMAIN tasks \/ A \notin AgentIds(agents)) )
       => /\ ~ret'.ok
          /\ RegistriesUnchanged]_vars

\* C5 happens: the last call was a rejected assign_task of an existing task
\* to an unregistered agent while an agent is registered
C5_Witness ==
  \E T \in TaskIdInputs, A \in AgentIdInputs \cup {GhostAgent} :
    /\ LastCall("assign_task", <<T, <<A>>>>)
    /\ ~ret.ok
    /\ T \in DOMAIN tasks
    /\ A \notin AgentIds(agents)
    /\ agents # <<>>
    /\ tasks[T].status = "pending"

\* C6: register_agent with a registered agent id and create_task with an
\* existing task id fail and leave the existing entry and the registry
\* unchanged.
C6_DuplicateIdRejected ==
  [][ /\ \A A \in AgentIdInputs :
           (Called("register_agent", <<(<<A>>)>>) /\ A \in AgentIds(agents))
           => (~ret'.ok /\ agents' = agents)
      /\ \A T \in TaskIdInputs :
           (Called("create_task", <<T>>) /\ T \in DOMAIN tasks)
           => (~ret'.ok /\ tasks' = tasks)]_vars

(***************************************************************************)
(* Workflow executor                                                       *)
(***************************************************************************)
\* C7: after execute_workflow returns for an existing workflow, its status is
\* completed if and only if every step has status completed and is partial
\* otherwise, and the returned success flag is true exactly when the status is
\* completed.
C7_StatusCompletedIffAllSteps ==
  \A W \in WorkflowIdInputs :
    (LastCall("execute_workflow", <<(<<W>>)>>) /\ W \in DOMAIN workflows)
    => LET wf == workflows[W]
           all_done == \A i \in DOMAIN wf.steps : wf.steps[i].status = "completed"
       IN /\ wf.status = "completed" <=> all_done
          /\ ~all_done => wf.status = "partial"
          /\ ret.ok <=> wf.status = "completed"

\* C7 happens: a run has just ended partial with one step completed and
\* another one failed
C7_Witness ==
  \E W \in WorkflowIdInputs :
    /\ LastCall("execute_workflow", <<(<<W>>)>>)
    /\ W \in DOMAIN workflows
    /\ workflows[W].status = "partial"
    /\ \E i, j \in DOMAIN workflows[W].steps :
         /\ workflows[W].steps[i].status = "completed"
         /\ workflows[W].steps[j].status = "failed"

\* C8: after every execute_workflow call on an existing workflow with n steps
\* each step is completed or failed and workflow.results holds exactly n
\* entries, the i-th being the result of the i-th step, however many runs of
\* the workflow came before.
C8_EveryStepRunsAndReports ==
  \A W \in WorkflowIdInputs :
    (LastCall("execute_workflow", <<(<<W>>)>>) /\ W \in DOMAIN workflows)
    => LET wf == workflows[W]
       IN /\ \A i \in DOMAIN wf.steps : wf.steps[i].status \in {"completed", "failed"}
          /\ Len(wf.results) = Len(wf.steps)
          /\ \A i \in DOMAIN wf.steps : wf.steps[i].result = Some(wf.results[i])

\* C8 happens: the second run of a workflow has just ended, its first step
\* failed and its second step completed
C8_Witness ==
  \E W \in WorkflowIdInputs :
    /\ LastCall("execute_workflow", <<(<<W>>)>>)
    /\ W \in DOMAIN workflows
    /\ Logged("workflow_executed") >= 2
    /\ Len(workflows[W].steps) = 2
    /\ workflows[W].steps[1].status = "failed"
    /\ workflows[W].steps[2].status = "completed"

C10_RunAddsFreshTasks ==
  [][\A W \in WorkflowIdInputs :
       (Called("execute_workflow", <<(<<W>>)>>) /\ W \in DOMAIN workflows)
       => /\ Cardinality(DOMAIN tasks') =
               Cardinality(DOMAIN tasks) + Len(workflows[W].steps)
          /\ \A t \in DOMAIN tasks : tasks'[t] = tasks[t]]_vars

\* C11: execute_workflow with a workflow id that is not in the workflow
\* registry returns the failure 'Workflow not found' and changes nothing: no
\* task is created, no workflow or step status changes, no agent counter
\* changes and no event is logged.
C11_UnknownWorkflowChangesNothing ==
  [][\A W \in WorkflowIdInputs :
       (Called("execute_workflow", <<(<<W>>)>>) /\ W \notin DOMAIN workflows)
         => /\ ~ret'.ok
            /\ ret'.error = "Workflow not found"
            /\ RegistriesUnchanged]_vars

\* an unknown workflow was run against a registry that holds an agent
C11_Witness ==
  /\ \E W \in WorkflowIdInputs :
       LastCall("execute_workflow", <<(<<W>>)>>) /\ W \notin DOMAIN workflows
  /\ ret.error = "Workflow not found"
  /\ agents # <<>>
  /\ log # <<>>

(***************************************************************************)
(* The agent matcher                                                       *)
(***************************************************************************)
\* the number of distinct lowercase word tokens of D that equal one of the
\* agent's lowercased capabilities
TokenScore(D, agent) ==
  Cardinality({token \in {Lower(D[k]) : k \in DOMAIN D} :
                 \E cap \in agent.capabilities : Lower(cap) = token})

\* the highest score any registered agent has against D
TopScore(D) ==
  CHOOSE n \in 0..Len(D) :
    /\ \A i \in DOMAIN agents : TokenScore(D, agents[i]) <= n
    /\ \E i \in DOMAIN agents : TokenScore(D, agents[i]) = n

\* the id of the first registered agent with the highest score against D
FirstTopScorer(D) ==
  agents[CHOOSE i \in DOMAIN agents :
           /\ TokenScore(D, agents[i]) = TopScore(D)
           /\ \A j \in 1..(i - 1) : TokenScore(D, agents[j]) < TopScore(D)].agent_id

\* C12: for every description D and every non-empty agent registry,
\* select_agent_for_task(D) returns the id of a registered agent whose score
\* against D is greater than or equal to the score of every other registered
\* agent.
C12_SelectsTopScorer ==
  \A D \in MatcherDescriptions :
    (LastCall("select_agent_for_task", <<D>>) /\ agents # <<>>)
      => /\ ret.value # None
         /\ ret.value[1] \in AgentIds(agents)
         /\ \A i \in DOMAIN agents :
              TokenScore(D, GetAgent(agents, ret.value[1])) >= TokenScore(D, agents[i])

\* the matcher picked the second of two agents, which outscores the first
C12_Witness ==
  /\ Len(agents) >= 2
  /\ \E D \in MatcherDescriptions :
       /\ LastCall("select_agent_for_task", <<D>>)
       /\ ret.value = Some(agents[2].agent_id)
       /\ TokenScore(D, agents[2]) > TokenScore(D, agents[1])
       /\ TokenScore(D, agents[1]) > 0

\* no registered agent has a positive score against D
NoPositiveScore(D) == \A i \in DOMAIN agents : TokenScore(D, agents[i]) <= 0

\* C13: when no registered agent has a positive score against the description
\* and the default agent 'analyzer_01' is not in the registry,
\* select_agent_for_task reports that no agent was found (returns no agent id),
\* even though the registry is non-empty.
C13_NoMatchNoDefaultReportsNone ==
  \A D \in MatcherDescriptions :
    ( /\ LastCall("select_agent_for_task", <<D>>)
      /\ agents # <<>>
      /\ NoPositiveScore(D)
      /\ "analyzer_01" \notin AgentIds(agents) )
      => ret.value = None

\* C14: when no registered agent has a positive score against the description
\* and 'analyzer_01' is registered, select_agent_for_task returns 'analyzer_01'
\* whatever its position in registration order; when some agent has a positive
\* score the default agent gets no preference: it is returned only if it is
\* the first agent with the highest score.
C14_DefaultOnlyWithoutMatch ==
  \A D \in MatcherDescriptions :
    (LastCall("select_agent_for_task", <<D>>) /\ "analyzer_01" \in AgentIds(agents))
      => /\ NoPositiveScore(D) => ret.value = Some("analyzer_01")
         /\ ~NoPositiveScore(D) =>
              (ret.value = Some("analyzer_01") <=> FirstTopScorer(D) = "analyzer_01")

\* nothing matched and the default, registered after another agent, was
\* returned
C14_Witness ==
  /\ Len(agents) >= 2
  /\ agents[1].agent_id # "analyzer_01"
  /\ "analyzer_01" \in AgentIds(agents)
  /\ \E D \in MatcherDescriptions :
       /\ LastCall("select_agent_for_task", <<D>>)
       /\ NoPositiveScore(D)
       /\ ret.value = Some("analyzer_01")

\* the agents that share the highest score against D
TopScorers(D) == {i \in DOMAIN agents : TokenScore(D, agents[i]) = TopScore(D)}

\* C15: when several agents share the highest positive score against a
\* description, select_agent_for_task returns the one that was registered
\* first (registry insertion order); registering additional agents with an
\* equal or lower score later never changes the selection.
C15_FirstRegisteredWinsTies ==
  [][\A D \in MatcherDescriptions :
       /\ ( /\ Called("select_agent_for_task", <<D>>)
            /\ Cardinality(TopScorers(D)) >= 2
            /\ TopScore(D) > 0 )
            => ret'.value = Some(FirstTopScorer(D))
       /\ \A A \in MatcherAgentIds :
            ( /\ Called("register_agent", <<(<<A>>)>>)
              /\ A \notin AgentIds(agents)
              /\ agents # <<>>
              /\ TopScore(D) > 0
              /\ TokenScore(D, agents'[Len(agents')]) <= TopScore(D) )
              => select_agent_for_task(World, D)' = select_agent_for_task(World, D)]_vars

\* three agents share the highest positive score, the last of them registered
\* after the other two, and the matcher returned the first
C15_Witness ==
  /\ Len(agents) = 3
  /\ \E D \in MatcherDescriptions :
       /\ LastCall("select_agent_for_task", <<D>>)
       /\ TopScore(D) > 0
       /\ TopScorers(D) = {1, 2, 3}
       /\ ret.value = Some(agents[1].agent_id)

(***************************************************************************)
(* The model router                                                        *)
(***************************************************************************)
\* the text part occurs somewhere in the text
OccursIn(part, text) ==
  \E from, to \in 0..Len(text) : from <= to /\ SubSeq(text, from + 1, to) = part

\* the number of strength keywords of the model that occur, lowercased, as
\* substrings of the lowercased query Q
MatchedCount(model, Q) ==
  Cardinality({k \in DOMAIN model.strengths :
                 OccursIn(LowerText(model.strengths[k]), LowerText(Q))})

\* the model has the given strengths and no others
HasStrengths(model, strengths) ==
  {model.strengths[k] : k \in DOMAIN model.strengths}
    = {strengths[k] : k \in DOMAIN strengths}

\* C16: route_model(query) returns success with the model that has the largest
\* number of strength keywords occurring as substrings of the lowercased
\* query, the first-registered such model when several tie (including the case
\* where nothing matches and the score is 0), and the returned score equals
\* that number of matched strengths; for the query 'please optimize my
\* planning workflow' a model with strengths planning and workflow scores 2
\* and a model with strengths search and citations does not win over it.
C16_RoutesToFirstBestModel ==
  \A Q \in QueryInputs :
    LastCall("route_model", <<Q>>)
      => /\ ret.ok
         /\ ret.value.success
         /\ \E i \in DOMAIN models :
              /\ ret.value.model = models[i]
              /\ \A j \in DOMAIN models : MatchedCount(models[j], Q) <= MatchedCount(models[i], Q)
              /\ \A j \in 1..(i - 1) : MatchedCount(models[j], Q) < MatchedCount(models[i], Q)
              /\ ret.value.score = MatchedCount(models[i], Q)
         /\ (Q = PlanningQuery /\ \E j \in DOMAIN models :
                                    HasStrengths(models[j], PlanningWorkflow))
              => /\ ret.value.score >= 2
                 /\ ~HasStrengths(ret.value.model, SearchCitations)

\* the planning query was routed with score 2 to the first of two models that
\* both match planning and workflow, the second one registered by a caller
C16_Witness ==
  /\ LastCall("route_model", <<PlanningQuery>>)
  /\ ret.value.score = 2
  /\ \E i, j \in DOMAIN models :
       /\ i < j
       /\ ret.value.model = models[i]
       /\ MatchedCount(models[j], PlanningQuery) = 2
       /\ HasStrengths(models[j], PlanningWorkflow)

(***************************************************************************)
(* Registry invariants                                                     *)
(***************************************************************************)
\* C17: an agent, once registered, is never removed from the registry, and its
\* tasks_completed counter is changed only by a successful execute_task on a
\* task assigned to it: the counter never decreases and no other operation
\* alters it.
C17_CounterOnlyGrowsByExecute ==
  [][\A i \in DOMAIN agents :
       /\ agents[i].agent_id \in AgentIds(agents')
       /\ LET before == agents[i].tasks_completed
              after == GetAgent(agents', agents[i].agent_id).tasks_completed
          IN /\ after >= before
             /\ after # before =>
                  \E T \in TaskIdInputs :
                    /\ Called("execute_task", <<T>>)
                    /\ ret'.ok
                    /\ tasks[T].assigned_to = Some(agents[i].agent_id)]_vars

(***************************************************************************)
(* Queries and the action log                                              *)
(***************************************************************************)
\* C18: calling get_swarm_status, list_models or list_workflows twice with no
\* mutating operation between the two calls yields identical results, field
\* for field.
C18_QueriesRepeatable ==
  [][\A query \in {"get_swarm_status", "list_models", "list_workflows"} :
       (LastCall(query, <<>>) /\ Called(query, <<>>))
         => ret'.value = ret.value]_vars

\* the event an operation writes to the action log
EventOf(op) ==
  CASE op = "register_agent" -> "agent_registered"
    [] op = "register_model" -> "model_registered"
    [] op = "create_task" -> "task_created"
    [] op = "assign_task" -> "task_assigned"
    [] op = "execute_task" -> "task_executed"
    [] op = "create_workflow" -> "workflow_created"
    [] op = "execute_workflow" -> "workflow_executed"

\* some registry is written in this step
RegistryWritten == <<agents, tasks, workflows, models>>' # <<agents, tasks, workflows, models>>

\* C19: every operation that mutates a registry (register_agent,
\* register_model, create_task, successful assign_task, successful
\* execute_task, create_workflow, execute_workflow) appends an event naming
\* that action to the action log, and the log is append-only: the events
\* already in it are never removed, reordered or rewritten by any later
\* operation.
C19_MutationsLoggedAppendOnly ==
  [][/\ Len(log') >= Len(log)
     /\ SubSeq(log', 1, Len(log)) = log
     /\ (now' = now /\ (RegistryWritten \/ ret'.ok))
          => /\ Len(log') > Len(log)
             /\ log'[Len(log')].action = EventOf(ret'.op)]_vars

\* a workflow ran a step to completion and its four events follow the events
\* of the registration and the creation, which are still in place
C19_Witness ==
  /\ \E W \in WorkflowIdInputs : LastCall("execute_workflow", <<(<<W>>)>>)
  /\ ret.ok
  /\ Len(log) >= 6
  /\ log[Len(log) - 3].action = "task_created"
  /\ log[Len(log) - 2].action = "task_assigned"
  /\ log[Len(log) - 1].action = "task_executed"
  /\ log[Len(log)].action = "workflow_executed"
  /\ \E k \in 1..(Len(log) - 4) : log[k].action = "agent_registered"

(***************************************************************************)
(* Concurrency                                                             *)
(***************************************************************************)
\* both calls have returned
BothReturned == calls # <<>> /\ \A c \in Callers : calls[c].pc = "done"

\* C20: with no locking around the registries, two assign_task calls on the
\* same existing task with two different registered agents, interleaved in any
\* way, both return success; the task ends with status assigned and
\* assigned_to equal to one of the two agents (the one whose write came last:
\* every write of assigned_to is the write of one of the calls and leaves that
\* call's agent in the field), and neither caller is told that its assignment
\* was overwritten: both get the plain True of an assignment that stood.
C20_RacingAssignsBothSucceed ==
  /\ [](BothReturned =>
          /\ \A c \in Callers : calls[c].result = Some(TRUE)
          /\ \A c, d \in Callers :
               /\ calls[c].task_id = calls[d].task_id
               /\ tasks[calls[c].task_id].status = "assigned"
               /\ tasks[calls[c].task_id].assigned_to
                    \in {Some(calls[1].agent_id), Some(calls[2].agent_id)})
  /\ [][\A T \in DOMAIN tasks :
          tasks'[T].assigned_to # tasks[T].assigned_to
            => \E c \in Callers :
                 /\ calls[c].pc = "set_assigned_to"
                 /\ calls'[c].pc = "set_status"
                 /\ calls[c].task_id = T
                 /\ tasks'[T].assigned_to = Some(calls[c].agent_id)]_vars

\* both calls returned True on a task that was completed before, the first
\* caller's agent is the one left in assigned_to and the second caller's
\* write is gone
C20_Witness ==
  /\ BothReturned
  /\ \A c \in Callers : calls[c].result = Some(TRUE)
  /\ tasks[calls[1].task_id].assigned_to = Some(calls[1].agent_id)
  /\ tasks[calls[1].task_id].assigned_to # Some(calls[2].agent_id)
  /\ tasks[calls[1].task_id].completed_at # None
  /\ Len(log) >= 2
  /\ log[Len(log) - 1].action = "task_assigned"
  /\ log[Len(log)].action = "task_assigned"

(***************************************************************************)
(* The entry point                                                         *)
(***************************************************************************)
\* C21: resolve_host(port_value) returns the HOST environment variable when it
\* is set and non-empty; otherwise '0.0.0.0' when ROWBOAT_STARTUP is '1' or
\* port_value is not None; otherwise '127.0.0.1' (so with HOST, PORT and
\* ROWBOAT_STARTUP all unset, resolve_host(None) is '127.0.0.1').
C21_ResolveHost ==
  \A P \in PortInputs :
    LastCall("resolve_host", <<P>>)
      => /\ (environ.HOST # None /\ environ.HOST # Some(""))
              => Some(ret.value) = environ.HOST
         /\ (environ.HOST = None \/ environ.HOST = Some(""))
              => /\ (environ.ROWBOAT_STARTUP = Some("1") \/ P # None)
                      => ret.value = "0.0.0.0"
                 /\ (environ.ROWBOAT_STARTUP # Some("1") /\ P = None)
                      => ret.value = "127.0.0.1"
         /\ (environ = Environ(None, None, None) /\ P = None)
              => ret.value = "127.0.0.1"

\* HOST is set but empty, ROWBOAT_STARTUP is not '1', and a port was given:
\* the host is '0.0.0.0'
C21_Witness ==
  /\ \E P \in PortInputs \ {None} : LastCall("resolve_host", <<P>>)
  /\ environ.HOST = Some("")
  /\ environ.ROWBOAT_STARTUP = Some("0")
  /\ ret.value = "0.0.0.0"

(***************************************************************************)
(* Workflow runs and the registries                                        *)
(***************************************************************************)
\* the sum of tasks_completed over the agents ags
RECURSIVE TotalCompleted(_)
TotalCompleted(ags) ==
  IF ags = <<>> THEN 0 ELSE Head(ags).tasks_completed + TotalCompleted(Tail(ags))

\* the steps of the workflow wf that have status completed
CompletedSteps(wf) == {idx \in DOMAIN wf.steps : wf.steps[idx].status = "completed"}

\* C22: each execute_workflow call increases the sum of tasks_completed over
\* all agents by exactly the number of steps that end with status completed in
\* that run, and for each such step the task registry holds a task with status
\* completed whose assigned_to equals the step's assigned_to.
C22_RunCountsCompletedSteps ==
  [][\A W \in WorkflowIdInputs :
       (Called("execute_workflow", <<(<<W>>)>>) /\ W \in DOMAIN workflows)
         => /\ TotalCompleted(agents')
                 = TotalCompleted(agents) + Cardinality(CompletedSteps(workflows'[W]))
            /\ \A idx \in CompletedSteps(workflows'[W]) :
                 \E T \in DOMAIN tasks' :
                   /\ T = StepTaskId(W, idx, RunSuffix(now))
                   /\ tasks'[T].status = "completed"
                   /\ tasks'[T].assigned_to = workflows'[W].steps[idx].assigned_to]_vars

\* the second run of a workflow whose one step completes: the agents have
\* completed two tasks in all
C22_Witness ==
  /\ \E W \in DOMAIN workflows :
       /\ LastCall("execute_workflow", <<(<<W>>)>>)
       /\ CompletedSteps(workflows[W]) = {1}
  /\ TotalCompleted(agents) = 2
  /\ Logged("workflow_executed") = 2

C24_AssigneeRegistered ==
  \A T \in DOMAIN tasks :
    \/ tasks[T].assigned_to = None
    \/ tasks[T].assigned_to[1] \in AgentIds(agents)

\* execute_task looked up the agent a task was assigned to and completed the
\* task
C24_Witness ==
  /\ LastCall("execute_task", <<(<<"task_001">>)>>)
  /\ ret.ok
  /\ tasks[<<"task_001">>].assigned_to = Some("analyzer_01")
  /\ \E rank \in DOMAIN log : log[rank].action = "task_assigned"
  /\ Len(log) >= 4

\* C25: between operations every task in the registry has status pending,
\* assigned or completed, never failed or executing, and a task with status
\* pending has no assignee and no result.
C25_TaskStatusBetweenOperations ==
  \A T \in DOMAIN tasks :
    /\ tasks[T].status \in {"pending", "assigned", "completed"}
    /\ tasks[T].status = "pending"
         => /\ tasks[T].assigned_to = None
            /\ tasks[T].result = None

\* a task that had been assigned and executed was created again under the
\* same id and is pending
C25_Witness ==
  /\ LastCall("create_task", <<(<<"task_001">>)>>)
  /\ tasks[<<"task_001">>].status = "pending"
  /\ Logged("task_assigned") >= 1
  /\ Logged("task_executed") >= 1
  /\ Logged("workflow_executed") = 0

\* C26: the model registry is never empty, so route_model returns success for
\* every query and its 'No models registered' results are unreachable.
C26_RouterAlwaysHasModel ==
  /\ models # <<>>
  /\ \A Q \in QueryInputs :
       LastCall("route_model", <<Q>>)
         => /\ ret.ok
            /\ ret.value.success
            /\ ret.value.model.model_id \in ModelIds(models)

\* a query that matches no strength was routed after a model had been
\* registered over the defaults
C26_Witness ==
  /\ \E Q \in QueryInputs : LastCall("route_model", <<Q>>)
  /\ Logged("model_registered") >= 1
  /\ ret.value.score = 0
  /\ ret.value.model = models[1]

\* the agent the matcher would choose now for the description of a step
MatcherChoice(step) == select_agent_for_task(World, step.description)

\* C27: once a step has executed successfully with an agent chosen by the
\* matcher, step.assigned_to is set to that agent, and every later
\* execute_workflow of the workflow runs the step with the same agent without
\* consulting the matcher, even if a higher-scoring agent was registered in
\* the meantime.
C27_StepAgentSticks ==
  [][\A W \in WorkflowIdInputs :
       (Called("execute_workflow", <<(<<W>>)>>) /\ W \in DOMAIN workflows)
         => \A idx \in DOMAIN workflows[W].steps :
              LET before == workflows[W].steps[idx]
                  after == workflows'[W].steps[idx]
                  task == tasks'[StepTaskId(W, idx, RunSuffix(now))]
              IN /\ after.status = "completed"
                      => /\ Truthy(after.assigned_to)
                         /\ after.assigned_to = task.assigned_to
                 /\ (before.status = "completed" /\ Truthy(before.assigned_to))
                      => /\ after.status = "completed"
                         /\ after.assigned_to = before.assigned_to
                         /\ task.assigned_to = before.assigned_to
                         /\ task.status = "completed"]_vars

\* a step first run with the agent the matcher chose was run a second time
\* with that agent although the matcher now prefers a higher-scoring one
C27_Witness ==
  \E W \in DOMAIN workflows :
    /\ LastCall("execute_workflow", <<(<<W>>)>>)
    /\ Logged("workflow_executed") = 2
    /\ Len(agents) = 2
    /\ agents[1].capabilities = {}
    /\ Len(workflows[W].steps) = 1
    /\ Len(log) >= 3
    /\ LET step == workflows[W].steps[1]
       IN /\ step.status = "completed"
          /\ step.description = <<"analyze", "X">>
          /\ step.assigned_to = Some(agents[1].agent_id)
          /\ MatcherChoice(step) = Some(agents[2].agent_id)
          /\ log[1].action = "agent_registered"
          /\ log[2].action = "workflow_created"
          /\ log[3].action = "task_created"

\* the steps of a workflow that ended failed
FailedSteps(wf) == {idx \in DOMAIN wf.steps : wf.steps[idx].status = "failed"}

\* C28: a step that fails because no agent resolves or because the assignment
\* fails still leaves the task synthesized for it in the task registry, with
\* status pending and no assignee; the task is counted in total_tasks by
\* get_swarm_status, and the run neither executes nor removes it.
C28_FailedStepLeavesPendingTask ==
  [][\A W \in WorkflowIdInputs :
       (Called("execute_workflow", <<(<<W>>)>>) /\ W \in DOMAIN workflows)
         => /\ \A idx \in FailedSteps(workflows'[W]) :
                 LET T == StepTaskId(W, idx, RunSuffix(now))
                 IN /\ T \in DOMAIN tasks'
                    /\ tasks'[T].status = "pending"
                    /\ tasks'[T].assigned_to = None
                    /\ tasks'[T].result = None
                    /\ tasks'[T].completed_at = None
            /\ LET status == get_swarm_status(World', now).value
                   pending == Cardinality(FailedSteps(workflows'[W]))
               IN /\ status.total_tasks = Cardinality(DOMAIN tasks')
                  /\ status.total_tasks - status.completed_tasks >= pending]_vars

\* a run in which one step found no usable agent and the other completed:
\* both synthesized tasks are in the registry, one pending and one completed
C28_Witness ==
  \E W \in DOMAIN workflows :
    /\ LastCall("execute_workflow", <<(<<W>>)>>)
    /\ Cardinality(FailedSteps(workflows[W])) = 1
    /\ Cardinality(CompletedSteps(workflows[W])) = 1
    /\ CountStatus(tasks, "pending") = 1
    /\ CountStatus(tasks, "completed") = 1

\* C29: executing a workflow that was created with an empty step list ends
\* with workflow status completed and empty results, returns success true,
\* and creates no task.
C29_EmptyWorkflowCompletes ==
  [][\A W \in WorkflowIdInputs :
       (/\ Called("execute_workflow", <<(<<W>>)>>)
        /\ W \in DOMAIN workflows
        /\ workflows[W].steps = <<>>)
         => /\ ret'.ok
            /\ workflows'[W].status = "completed"
            /\ workflows'[W].results = <<>>
            /\ workflows'[W].steps = <<>>
            /\ tasks' = tasks
            /\ agents' = agents
            /\ log' = Append(log, LogEntry("workflow_executed", <<W>>))]_vars

\* a workflow without steps was run with an agent registered, and the task
\* registry is still empty
C29_Witness ==
  \E W \in DOMAIN workflows :
    /\ LastCall("execute_workflow", <<(<<W>>)>>)
    /\ ret.ok
    /\ workflows[W].steps = <<>>
    /\ workflows[W].status = "completed"
    /\ Len(agents) >= 1
    /\ tasks = <<>>

\* C30: no operation changes an agent's status: every agent is 'idle' in
\* every reachable state, so the active_agents of get_swarm_status is 0 after
\* any sequence of registrations, assignments, task executions and workflow
\* executions.
C30_AgentsStayIdle ==
  /\ \A i \in DOMAIN agents : agents[i].status = "idle"
  /\ get_swarm_status(World, now).value.active_agents = 0

\* an agent has been registered, assigned a task and has executed it in a
\* workflow run
C30_Witness ==
  /\ Len(agents) >= 1
  /\ agents[1].tasks_completed >= 1
  /\ Logged("task_assigned") >= 1
  /\ Logged("task_executed") >= 1
  /\ Logged("workflow_executed") >= 1

====
